---- MODULE Spec2Model ----
(***************************************************************************)
(* PIA port forwarding script (pia-script.py): one invocation of main ().   *)
(*                                                                         *)
(* The run is sequential.  It is cut into steps at the places where it     *)
(* reads its environment: the operating system's interface table (read by  *)
(* netifaces.interfaces and twice by netifaces.ifaddresses), the           *)
(* credentials file, and the HTTP exchange.  The interface table belongs   *)
(* to the operating system and may change between two reads.               *)
(*                                                                         *)
(* Text is a sequence of fragments (strings) whose concatenation is the    *)
(* Python string.  A Python dict is a sequence of [k, v] pairs with        *)
(* distinct keys, in insertion order.                                      *)
(***************************************************************************)
EXTENDS Integers, Sequences, FiniteSets, TLC

VARIABLES
    pc,           \* position of the run in main ()
    DEBUG,        \* global DEBUG flag, set from args.debug
    ifExists,     \* OS: INTERFACE is in netifaces.interfaces ()
    ifAddrs,      \* OS: IPv4 address records of INTERFACE (<<>>: no AF_INET family)
    envChanges,   \* number of changes the OS made to the interface table
    credFile,     \* the credentials file: [readable, text]
    credentials,  \* local variable credentials of getCredentials / main
    localIP,      \* value returned by getIPAddress
    seenAddrs,    \* addressList as read by getIPAddress
    postCount,    \* number of urlopen calls issued
    postBody,     \* parameters passed to urlopen as data
    response,     \* local variable response of main
    stdout,       \* what print wrote: a sequence of Text, one per print call
    exitVia,      \* "running", "handleError", "uncaught", "return"
    exitCode,     \* process exit status
    exception,    \* name of the exception that ended the run without a handler
    connected,    \* what isConnected returned: "unknown", "true", "false"
    transport,    \* outcome of urlopen / connection.read: "none" before the call
    responseText, \* responseString, the decoded body of the response
    calls         \* log of the functions and external calls executed, in order

vars == <<pc, DEBUG, ifExists, ifAddrs, envChanges, credFile, credentials, localIP,
          seenAddrs, postCount, postBody, response, stdout, exitVia, exitCode,
          exception, connected, transport, responseText, calls>>

-----------------------------------------------------------------------------
(* Bounds of the model *)

MaxAddrs == 2

MaxEnvChanges == 1

-----------------------------------------------------------------------------
(* Constants of the program *)

ADDRESS_LIMIT == 1

TIMEOUT == 10

INTERFACE == "tun0"

ENDPOINT == "https://www.privateinternetaccess.com/vpninfo/port_forward_assignment"

\* exit status of the interpreter when an exception reaches the top level
UncaughtStatus == 1

exitCodes ==
    << "main (): Success, normal exit",
       "main (): VPN is not connected",
       "getCredentials (): Credentials file cannot be opened",
       "getCredentials (): JSON credentials are malformed",
       "getCredentials (): Credentials file is missing required keys",
       "getIPAddress (): Found more addresses than expected",
       "forwardPort (): Error posting to API endpoint",
       "forwardPort (): API JSON response is malformed",
       "main (): API returned an error response",
       "main (): API returned an unknown response" >>

RequiredKeys == {"user", "pass", "client_id"}

-----------------------------------------------------------------------------
(* Python values *)

\* Every value has the same four fields: t (type), s (str payload),
\* n (int payload), items (dict pairs or list elements).
PyStrV(s) == [t |-> "str", s |-> s, n |-> 0, items |-> <<>>]
PyIntV(n) == [t |-> "int", s |-> "", n |-> n, items |-> <<>>]
PyNone == [t |-> "None", s |-> "", n |-> 0, items |-> <<>>]
PyDict(items) == [t |-> "dict", s |-> "", n |-> 0, items |-> items]
PyList(items) == [t |-> "list", s |-> "", n |-> 0, items |-> items]

Range(f) == {f[i] : i \in DOMAIN f}

DictKeys(d) == {d[i].k : i \in DOMAIN d}

DictHas(d, key) == key \in DictKeys(d)

DictGet(d, key) == d[CHOOSE i \in DOMAIN d : d[i].k = key].v

\* d [key] = value: replaces the value in place, or appends a new pair
DictSet(d, key, value) ==
    IF DictHas(d, key)
    THEN [i \in DOMAIN d |-> IF d[i].k = key THEN [k |-> key, v |-> value] ELSE d[i]]
    ELSE Append(d, [k |-> key, v |-> value])

DigitStr(d) ==
    CASE d = 0 -> "0" [] d = 1 -> "1" [] d = 2 -> "2" [] d = 3 -> "3" [] d = 4 -> "4"
      [] d = 5 -> "5" [] d = 6 -> "6" [] d = 7 -> "7" [] d = 8 -> "8" [] d = 9 -> "9"

RECURSIVE IntToStr(_)
IntToStr(n) ==
    IF n < 0 THEN "-" \o IntToStr(-n)
    ELSE IF n < 10 THEN DigitStr(n)
    ELSE IntToStr(n \div 10) \o DigitStr(n % 10)

\* repr () of a scalar
PyRepr(v) ==
    CASE v.t = "str" -> "'" \o v.s \o "'"
      [] v.t = "int" -> IntToStr(v.n)
      [] OTHER -> "None"

RECURSIVE ReprPairs(_)
ReprPairs(items) ==
    IF items = <<>> THEN ""
    ELSE "'" \o items[1].k \o "': " \o PyRepr(items[1].v)
         \o (IF Len(items) > 1 THEN ", " \o ReprPairs(Tail(items)) ELSE "")

RECURSIVE ReprElems(_)
ReprElems(items) ==
    IF items = <<>> THEN ""
    ELSE PyRepr(items[1]) \o (IF Len(items) > 1 THEN ", " \o ReprElems(Tail(items)) ELSE "")

\* str (): a str is itself, an int its decimal digits, a container its repr
PyStr(v) ==
    CASE v.t = "str" -> v.s
      [] v.t = "int" -> IntToStr(v.n)
      [] v.t = "None" -> "None"
      [] v.t = "dict" -> "{" \o ReprPairs(v.items) \o "}"
      [] v.t = "list" -> "[" \o ReprElems(v.items) \o "]"

-----------------------------------------------------------------------------
(* JSON text and json.loads *)

\* A JSON text is a sequence of lexical units.  esc = TRUE: the unit is in
\* its percent-escaped form (%7B for {, %22port%22 for "port", ...).
JPunct(c) == [k |-> c, s |-> "", n |-> 0, esc |-> FALSE]
JStr(s) == [k |-> "str", s |-> s, n |-> 0, esc |-> FALSE]
JNum(n) == [k |-> "num", s |-> "", n |-> n, esc |-> FALSE]
JNull == [k |-> "null", s |-> "", n |-> 0, esc |-> FALSE]
JJunk(s) == [k |-> "junk", s |-> s, n |-> 0, esc |-> FALSE]

Escaped(text) == [i \in DOMAIN text |-> [text[i] EXCEPT !.esc = TRUE]]

\* urllib.parse.unquote: every percent-escape is replaced by its character
unquote(text) == [i \in DOMAIN text |-> [text[i] EXCEPT !.esc = FALSE]]

JScalar(u) == u.k \in {"str", "num", "null"}

JValue(u) ==
    CASE u.k = "str" -> PyStrV(u.s)
      [] u.k = "num" -> PyIntV(u.n)
      [] OTHER -> PyNone

JFail == [ok |-> FALSE, val |-> PyNone]

\* members of an object: "key" : scalar { , "key" : scalar }; a repeated key
\* keeps its first position and its last value, as a Python dict does
RECURSIVE JMembers(_, _)
JMembers(ms, acc) ==
    IF Len(ms) >= 3 /\ ms[1].k = "str" /\ ms[2].k = ":" /\ JScalar(ms[3])
    THEN LET acc2 == DictSet(acc, ms[1].s, JValue(ms[3]))
         IN IF Len(ms) = 3 THEN [ok |-> TRUE, val |-> PyDict(acc2)]
            ELSE IF Len(ms) > 4 /\ ms[4].k = ","
                 THEN JMembers(SubSeq(ms, 5, Len(ms)), acc2)
                 ELSE JFail
    ELSE JFail

RECURSIVE JElements(_, _)
JElements(es, acc) ==
    IF Len(es) >= 1 /\ JScalar(es[1])
    THEN LET acc2 == Append(acc, JValue(es[1]))
         IN IF Len(es) = 1 THEN [ok |-> TRUE, val |-> PyList(acc2)]
            ELSE IF Len(es) > 2 /\ es[2].k = ","
                 THEN JElements(SubSeq(es, 3, Len(es)), acc2)
                 ELSE JFail
    ELSE JFail

\* json.loads on flat documents: [ok, val]; ok = FALSE is ValueError
json_loads(text) ==
    IF text = <<>> \/ \E i \in DOMAIN text : text[i].esc \/ text[i].k = "junk"
    THEN JFail
    ELSE IF Len(text) = 1
         THEN IF JScalar(text[1]) THEN [ok |-> TRUE, val |-> JValue(text[1])] ELSE JFail
    ELSE IF text[1].k = "{" /\ text[Len(text)].k = "}"
         THEN IF Len(text) = 2 THEN [ok |-> TRUE, val |-> PyDict(<<>>)]
              ELSE JMembers(SubSeq(text, 2, Len(text) - 1), <<>>)
    ELSE IF text[1].k = "[" /\ text[Len(text)].k = "]"
         THEN IF Len(text) = 2 THEN [ok |-> TRUE, val |-> PyList(<<>>)]
              ELSE JElements(SubSeq(text, 2, Len(text) - 1), <<>>)
    ELSE JFail

\* characters of a unit as the text holds them
UnitText(u) ==
    LET plain == CASE u.k = "str" -> "\"" \o u.s \o "\""
                   [] u.k = "num" -> IntToStr(u.n)
                   [] u.k = "null" -> "null"
                   [] u.k = "junk" -> u.s
                   [] OTHER -> u.k
    IN IF u.esc THEN "%(" \o plain \o ")" ELSE plain

RECURSIVE TextOf(_)
TextOf(text) == IF text = <<>> THEN "" ELSE UnitText(text[1]) \o TextOf(Tail(text))

\* the units of a flat JSON object with the given pairs [k, u]
RECURSIVE JMemberUnits(_)
JMemberUnits(pairs) ==
    IF pairs = <<>> THEN <<>>
    ELSE <<JStr(pairs[1].k), JPunct(":"), pairs[1].u>>
         \o (IF Len(pairs) > 1 THEN <<JPunct(",")>> \o JMemberUnits(Tail(pairs)) ELSE <<>>)

JObject(pairs) == <<JPunct("{")>> \o JMemberUnits(pairs) \o <<JPunct("}")>>

-----------------------------------------------------------------------------
(* The inputs of a run *)

credentialsPath == "credentials.json"

\* IPv4 address record number i of the interface, as netifaces reports it
AddressRecord(i) ==
    PyDict(<< [k |-> "addr", v |-> PyStrV("10.0.0." \o IntToStr(i))],
              [k |-> "netmask", v |-> PyStrV("255.255.255.0")] >>)

\* the address lists the interface can have: n records, starting at record r
AddressLists ==
    {[i \in 1..n |-> AddressRecord(i + r)] : n \in 0..MaxAddrs, r \in 0..1}

\* states of the OS interface table: absent, or present with an address list
InterfaceStates ==
    {[exists |-> FALSE, addrs |-> <<>>]}
        \cup {[exists |-> TRUE, addrs |-> a] : a \in AddressLists}

CredentialValue(key) ==
    CASE key = "user" -> JStr("u 1")
      [] key = "pass" -> JStr("p&w")
      [] key = "client_id" -> JStr("c1")
      [] key = "local_ip" -> JStr("192.168.0.9")
      [] OTHER -> JStr("x")

CredentialKeyOrders ==
    { <<>>, <<"user">>, <<"pass">>, <<"client_id">>, <<"user", "pass">>,
      <<"user", "client_id">>, <<"pass", "client_id">>,
      <<"user", "pass", "client_id">>, <<"client_id", "pass", "user">>,
      <<"local_ip", "user", "pass", "client_id">>,
      <<"user", "pass", "extra", "client_id">>, <<"extra">> }

CredentialObject(keys) ==
    JObject([i \in DOMAIN keys |-> [k |-> keys[i], u |-> CredentialValue(keys[i])]])

\* contents of the credentials file: JSON objects with every subset of the
\* required keys, other JSON values, and texts that are not JSON
CredentialTexts ==
    {CredentialObject(keys) : keys \in CredentialKeyOrders}
        \cup { <<JPunct("["), JPunct("]")>>, <<JStr("user")>>, <<JNum(5)>>, <<JNull>>,
               <<JPunct("{"), JStr("user")>>, <<>>,
               Escaped(CredentialObject(<<"user", "pass", "client_id">>)) }

CredentialFiles ==
    {[readable |-> FALSE, text |-> <<>>]}
        \cup {[readable |-> TRUE, text |-> t] : t \in CredentialTexts}

\* what urlopen and connection.read can do
TransportOutcomes ==
    {"ok", "URLError", "URLError(timeout)", "HTTPError", "socket.timeout"}

ResponseObjects ==
    { JObject(<<[k |-> "port", u |-> JNum(12345)]>>),
      JObject(<<[k |-> "error", u |-> JStr("bad token")]>>),
      JObject(<<[k |-> "port", u |-> JNum(443)], [k |-> "error", u |-> JStr("e")]>>),
      JObject(<<[k |-> "error", u |-> JStr("e")], [k |-> "port", u |-> JStr("80")]>>),
      JObject(<<[k |-> "foo", u |-> JStr("bar")]>>),
      JObject(<<[k |-> "foo", u |-> JStr("bar")], [k |-> "n", u |-> JNum(7)]>>),
      JObject(<<>>) }

\* response bodies after decoding: JSON objects, plain and percent-escaped,
\* other JSON values, and texts that are not JSON
ResponseTexts ==
    ResponseObjects
        \cup {Escaped(t) : t \in ResponseObjects}
        \cup { <<JStr("port")>>, <<JStr("error")>>, <<JStr("ok")>>, <<JNum(5)>>, <<JNull>>,
               <<JPunct("["), JStr("port"), JPunct("]")>>, <<JPunct("["), JPunct("]")>>,
               <<JJunk("<html>")>>, <<>> }

-----------------------------------------------------------------------------
(* Printing and the error reporter *)

print(out, text) == Append(out, text)

debugPrint(out, message, printNewline) ==
    IF ~DEBUG THEN out
    ELSE IF printNewline THEN print(print(out, message), <<>>) ELSE print(out, message)

nonDebugPrint(out, message, printNewline) ==
    IF DEBUG THEN out
    ELSE IF printNewline THEN print(print(out, message), <<>>) ELSE print(out, message)

RECURSIVE JoinLines(_)
JoinLines(strs) ==
    IF strs = <<>> THEN <<>>
    ELSE IF Len(strs) = 1 THEN <<strs[1]>>
    ELSE <<strs[1], "\n">> \o JoinLines(Tail(strs))

\* message + '\n'.join (str (element) for element in elements)
concatStringToList(message, elements) ==
    message \o JoinLines([i \in DOMAIN elements |-> PyStr(elements[i])])

\* the process ends: by sys.exit, by an exception no handler catches, or by
\* main returning
Exit(out, via, code, exc) ==
    /\ stdout' = out
    /\ exitVia' = via
    /\ exitCode' = code
    /\ exception' = exc
    /\ pc' = "exited"

Raise(out, exc) == Exit(out, "uncaught", UncaughtStatus, exc)

Continue(out, next) ==
    /\ stdout' = out
    /\ pc' = next
    /\ UNCHANGED <<exitVia, exitCode, exception>>

\* handleError with sys.exit () in place of sys.exit (exitCode)
handleErrorExitsZero(out, message, code, cause) ==
    LET out1 == print(print(out, message), <<>>)
        out2 == IF cause # "" THEN print(print(out1, <<cause>>), <<>>) ELSE out1
    IN Exit(print(out2, <<"Exiting with exit status: ", IntToStr(code), ", ",
                          exitCodes[code + 1]>>),
            "handleError", 0, "")

\* cause = "": no exception given
handleError(out, message, code, cause) ==
    LET out1 == print(print(out, message), <<>>)
        out2 == IF cause # "" THEN print(print(out1, <<cause>>), <<>>) ELSE out1
        n == Len(exitCodes)
    IN IF code >= -n /\ code < n
       THEN Exit(print(out2, <<"Exiting with exit status: ", IntToStr(code), ", ",
                               exitCodes[(code % n) + 1]>>),
                 "handleError", code, "")
       ELSE Raise(out2, "IndexError")

-----------------------------------------------------------------------------
(* Interface Inspector *)

\* isConnected, line 165 to 169: is the interface in netifaces.interfaces ()
isConnected_interfaces ==
    /\ pc = "isConnected"
    /\ calls' = Append(calls, "interfaces")
    /\ IF ~ifExists
       THEN /\ connected' = "false"
            /\ handleError(stdout,
                   <<"VPN interface: '", INTERFACE,
                     "' is not connected, please connect it first\nBe sure the INTERFACE variable is correctly set if your VPN is actually connected">>,
                   1, "")
       ELSE /\ connected' = connected
            /\ Continue(stdout, "isConnected_ifaddresses")
    /\ UNCHANGED <<DEBUG, ifExists, ifAddrs, envChanges, credFile, credentials, localIP,
                   seenAddrs, postCount, postBody, response, transport, responseText>>

\* isConnected, line 172 to 178: is AF_INET among the interface's families
isConnected_ifaddresses ==
    /\ pc = "isConnected_ifaddresses"
    /\ calls' = Append(calls, "ifaddresses")
    /\ IF ~ifExists
       THEN /\ connected' = connected
            /\ Raise(stdout, "ValueError")
       ELSE IF ifAddrs # <<>>
       THEN /\ connected' = "true"
            /\ Continue(debugPrint(stdout, <<"Interface: '", INTERFACE, "' is connected">>, TRUE),
                        "getCredentials")
       ELSE /\ connected' = "false"
            /\ handleError(stdout,
                   <<"VPN interface: '", INTERFACE,
                     "' is not connected, please connect it first\nBe sure the INTERFACE variable is correctly set if your VPN is actually connected">>,
                   1, "")
    /\ UNCHANGED <<DEBUG, ifExists, ifAddrs, envChanges, credFile, credentials, localIP,
                   seenAddrs, postCount, postBody, response, transport, responseText>>

\* getIPAddress without the test of line 197: the first address is returned
getIPAddressPicksFirst(out) ==
    LET none == [kind |-> "raise", exc |-> "", message |-> <<>>, ip |-> PyNone,
                 out |-> out, addressList |-> <<>>]
    IN IF ~ifExists THEN [none EXCEPT !.exc = "ValueError"]
       ELSE IF ifAddrs = <<>> THEN [none EXCEPT !.exc = "KeyError(AF_INET)"]
       ELSE LET ip == DictGet(ifAddrs[1].items, "addr")
            IN [none EXCEPT
                  !.kind = "return",
                  !.addressList = ifAddrs,
                  !.ip = ip,
                  !.out = debugPrint(out,
                              <<"Local IP for VPN interface '", INTERFACE, "': ",
                                PyStr(ip)>>, TRUE)]

\* getIPAddress: [kind, exc, message, ip, out, addressList]
\*   kind "raise": an exception exc leaves the function
\*   kind "handleError": handleError (message, 5) is called
\*   kind "return": ip is returned
getIPAddress(out) ==
    LET none == [kind |-> "raise", exc |-> "", message |-> <<>>, ip |-> PyNone,
                 out |-> out, addressList |-> <<>>]
    IN IF ~ifExists THEN [none EXCEPT !.exc = "ValueError"]
       ELSE IF ifAddrs = <<>> THEN [none EXCEPT !.exc = "KeyError(AF_INET)"]
       ELSE LET addressList == ifAddrs
                addresses == Len(addressList)
            IN IF addresses > ADDRESS_LIMIT
               THEN [none EXCEPT
                       !.kind = "handleError",
                       !.addressList = addressList,
                       !.message = concatStringToList(
                           <<"Receieved ", IntToStr(addresses),
                             " IPV4 address(es) for your VPN interface: '", INTERFACE,
                             "', expected: ", IntToStr(ADDRESS_LIMIT), "\nAddresses:\n\n">>,
                           addressList)]
               ELSE LET address == addressList[1]
                        ip == DictGet(address.items, "addr")
                    IN [none EXCEPT
                          !.kind = "return",
                          !.addressList = addressList,
                          !.ip = ip,
                          !.out = debugPrint(out,
                                      <<"Local IP for VPN interface '", INTERFACE, "': ",
                                        PyStr(ip)>>, TRUE)]

-----------------------------------------------------------------------------
(* Credential Loader *)

\* getCredentials, line 217 to 227: open, read and parse the file
getCredentials_load ==
    /\ pc = "getCredentials"
    /\ calls' = Append(calls, "open")
    /\ IF ~credFile.readable
       THEN /\ credentials' = credentials
            /\ handleError(stdout,
                   <<"Credentials file: '", credentialsPath,
                     "' does not exist or cannot be opened">>, 2, "IOError")
       ELSE LET out1 == debugPrint(stdout,
                            <<"Using credentials file: '", credentialsPath, "'">>, TRUE)
                parsed == json_loads(credFile.text)
            IN IF ~parsed.ok
               THEN /\ credentials' = credentials
                    /\ handleError(out1,
                           <<"JSON file: '", credentialsPath,
                             "' is malformed, refer to the README or the exception message below for the correct format">>,
                           3, "ValueError")
               ELSE /\ credentials' = parsed.val
                    /\ Continue(out1, "getIPAddress")
    /\ UNCHANGED <<DEBUG, ifExists, ifAddrs, envChanges, credFile, localIP, seenAddrs,
                   postCount, postBody, response, connected, transport, responseText>>

\* line 232: not credentials.keys () & {'user', 'pass', 'client_id'}
missingRequiredKeys(items) == DictKeys(items) \cap RequiredKeys = {}

\* line 235 to 237: the arguments of the three debugPrint calls are evaluated
\* whether or not DEBUG is set; [ok, out]: ok = FALSE is KeyError
printCredentials(out, items) ==
    IF ~DictHas(items, "user") THEN [ok |-> FALSE, out |-> out]
    ELSE LET out1 == debugPrint(out,
                         <<"Username: '", PyStr(DictGet(items, "user")), "'">>, FALSE)
         IN IF ~DictHas(items, "pass") THEN [ok |-> FALSE, out |-> out1]
            ELSE LET out2 == debugPrint(out1,
                                 <<"Password: '", PyStr(DictGet(items, "pass")), "'">>, FALSE)
                 IN IF ~DictHas(items, "client_id") THEN [ok |-> FALSE, out |-> out2]
                    ELSE [ok |-> TRUE,
                          out |-> debugPrint(out2,
                                      <<"Client ID: '",
                                        PyStr(DictGet(items, "client_id")), "'">>, TRUE)]

\* credentials.setdefault ('local_ip', ip): a local_ip of the file is kept
augmentKeepsFileValue(items, ip) ==
    IF DictHas(items, "local_ip") THEN items
    ELSE Append(items, [k |-> "local_ip", v |-> ip])

\* line 229: credentials ['local_ip'] = ip
augment(items, ip) == DictSet(items, "local_ip", ip)

\* getCredentials, line 229 to 239: resolve the address, add it, validate, return
getCredentials_augment ==
    /\ pc = "getIPAddress"
    /\ calls' = Append(calls, "getIPAddress")
    /\ LET r == getIPAddress(stdout)
       IN /\ seenAddrs' = r.addressList
          /\ localIP' = r.ip
          /\ IF r.kind = "raise"
             THEN /\ credentials' = credentials
                  /\ Raise(r.out, r.exc)
             ELSE IF r.kind = "handleError"
             THEN /\ credentials' = credentials
                  /\ handleError(r.out, r.message, 5, "")
             ELSE IF credentials.t # "dict"
             THEN /\ credentials' = credentials
                  /\ Raise(r.out, "TypeError")
             ELSE LET items == augment(credentials.items, r.ip)
                  IN /\ credentials' = PyDict(items)
                     /\ IF missingRequiredKeys(items)
                        THEN handleError(r.out,
                                 <<"Credentials file: ", credentialsPath,
                                   " is missing required keys. See the required format in the README">>,
                                 4, "")
                        ELSE LET p == printCredentials(r.out, items)
                             IN IF p.ok THEN Continue(p.out, "forwardPort")
                                ELSE Raise(p.out, "KeyError(credentials)")
    /\ UNCHANGED <<DEBUG, ifExists, ifAddrs, envChanges, credFile, postCount, postBody,
                   response, connected, transport, responseText>>

-----------------------------------------------------------------------------
(* API Client *)

\* urllib.parse.quote_plus on the strings of the model: letters, digits and
\* _ . - ~ are kept, a space becomes +, any other character its %XX escape
quote_plus(s) ==
    CASE s = "u 1" -> "u+1"
      [] s = "p&w" -> "p%26w"
      [] OTHER -> s

RECURSIVE urlencode(_)
urlencode(items) ==
    IF items = <<>> THEN ""
    ELSE quote_plus(items[1].k) \o "=" \o quote_plus(PyStr(items[1].v))
         \o (IF Len(items) > 1 THEN "&" \o urlencode(Tail(items)) ELSE "")

\* line 253: the mapping that is form-encoded
postParameters(creds) == urlencode(creds.items)

\* does the try block of line 257 to 267 catch this outcome of the exchange
caughtByForwardPort(outcome) == outcome \in {"URLError", "URLError(timeout)", "HTTPError"}

\* a handler that asks again instead of reporting the failure
onTransportErrorRetry(out, outcome) ==
    Continue(debugPrint(out, <<"Retrying after: ", outcome>>, TRUE), "forwardPort")

\* line 266 to 267: the handler of URLError and HTTPError
onTransportError(out, outcome) ==
    handleError(out, <<"Error posting to endpoint URL: ", ENDPOINT>>, 6, outcome)

\* forwardPort, line 251 to 280
forwardPort ==
    /\ pc = "forwardPort"
    /\ calls' = Append(calls, "urlopen")
    /\ postCount' = postCount + 1
    /\ postBody' = postParameters(credentials)
    /\ \E outcome \in TransportOutcomes, body \in ResponseTexts, decodable \in BOOLEAN :
          LET out0 == debugPrint(stdout, <<"Posting to endpoint: '", ENDPOINT, "'">>, TRUE)
          IN /\ transport' = outcome
             /\ IF outcome # "ok"
                THEN /\ UNCHANGED <<response, responseText>>
                     /\ IF caughtByForwardPort(outcome)
                        THEN onTransportError(out0, outcome)
                        ELSE Raise(out0, outcome)
                ELSE IF ~decodable
                THEN /\ UNCHANGED <<response, responseText>>
                     /\ Raise(out0, "UnicodeDecodeError")
                ELSE LET responseString == body
                         nonHTTPResponse == unquote(responseString)
                         out1 == debugPrint(out0,
                                     <<"Decoded API response bytes as: '", "utf-8", "'">>, TRUE)
                         out2 == debugPrint(out1,
                                     <<"API response JSON: '", TextOf(nonHTTPResponse), "'">>,
                                     TRUE)
                         parsed == json_loads(nonHTTPResponse)
                     IN /\ responseText' = responseString
                        /\ IF parsed.ok
                           THEN /\ response' = parsed.val
                                /\ Continue(out2, "classify")
                           ELSE /\ response' = response
                                /\ handleError(out2,
                                       <<"The API response is malformed, refer to the response text and the exception message below\n\nResponse text: ",
                                         TextOf(nonHTTPResponse)>>, 7, "ValueError")
    /\ UNCHANGED <<DEBUG, ifExists, ifAddrs, envChanges, credFile, credentials, localIP,
                   seenAddrs, connected>>

-----------------------------------------------------------------------------
(* Response Classifier *)

\* key in value; on a str the test is the substring test, which on the
\* strings of the model is equality; [ok, val]: ok = FALSE is TypeError
PyIn(key, v) ==
    CASE v.t = "dict" -> [ok |-> TRUE, val |-> DictHas(v.items, key)]
      [] v.t = "list" -> [ok |-> TRUE, val |-> PyStrV(key) \in Range(v.items)]
      [] v.t = "str" -> [ok |-> TRUE, val |-> v.s = key]
      [] OTHER -> [ok |-> FALSE, val |-> FALSE]

\* the branches of line 322 and 327 in the other order
classifyErrorFirst(items) ==
    IF DictHas(items, "error") THEN "error"
    ELSE IF DictHas(items, "port") THEN "port"
    ELSE "unknown"

\* the branch main takes on a dict, line 322 to 339
classify(items) ==
    IF DictHas(items, "port") THEN "port"
    ELSE IF DictHas(items, "error") THEN "error"
    ELSE "unknown"

\* line 332 to 335: '%s: %s' % (str (key), str (value)) for every pair
keyValues(items) ==
    [i \in DOMAIN items |-> PyStrV(items[i].k \o ": " \o PyStr(items[i].v))]

\* main, line 319 to 342
main_classify ==
    /\ pc = "classify"
    /\ calls' = Append(calls, "classify")
    /\ LET out0 == nonDebugPrint(stdout, <<"Response recieved">>, TRUE)
       IN IF response.t = "dict"
          THEN LET branch == classify(response.items)
               IN IF branch = "port"
                  THEN LET out1 == print(print(out0,
                                       <<"Forwarded port: ",
                                         PyStr(DictGet(response.items, "port"))>>), <<>>)
                           out2 == print(out1,
                                       <<"Make sure to allow this port in your firewall and configure your applications to use it.">>)
                           out3 == print(out2, <<"Have a nice day :)">>)
                       IN Exit(out3, "return", 0, "")
                  ELSE IF branch = "error"
                  THEN handleError(out0,
                           <<"API returned an error: ",
                             PyStr(DictGet(response.items, "error"))>>, 8, "")
                  ELSE handleError(out0,
                           concatStringToList(
                               <<"API returned unknown key/value pair(s):\n\n">>,
                               keyValues(response.items)), 9, "")
          ELSE IF ~PyIn("port", response).ok THEN Raise(out0, "TypeError")
          ELSE IF PyIn("port", response).val THEN Raise(out0, "TypeError")
          ELSE IF PyIn("error", response).val THEN Raise(out0, "TypeError")
          ELSE Raise(out0, "AttributeError")
    /\ UNCHANGED <<DEBUG, ifExists, ifAddrs, envChanges, credFile, credentials, localIP,
                   seenAddrs, postCount, postBody, response, connected, transport,
                   responseText>>

-----------------------------------------------------------------------------
(* The operating system *)

\* the interface table changes while the script runs
InterfaceChanges ==
    /\ pc # "exited"
    /\ envChanges < MaxEnvChanges
    /\ envChanges' = envChanges + 1
    /\ \E st \in InterfaceStates :
          /\ <<st.exists, st.addrs>> # <<ifExists, ifAddrs>>
          /\ ifExists' = st.exists
          /\ ifAddrs' = st.addrs
    /\ UNCHANGED <<pc, DEBUG, credFile, credentials, localIP, seenAddrs, postCount,
                   postBody, response, stdout, exitVia, exitCode, exception, connected,
                   transport, responseText, calls>>

-----------------------------------------------------------------------------
(* The run *)

\* main, line 295 to 310: the banner is printed and the arguments are parsed
Banner ==
    << <<>>,
       <<"Private Internet Access Port Forwarding Script", " - ",
         "Copyright 2016 Kieran Gillibrand", ", ", "MIT License (LICENSE.txt)">>,
       <<"Version: ", "1.2", ", ", "23/12/2016">>,
       <<"https://github.com/Favorablestream">>,
       <<>> >>

Init ==
    /\ pc = "isConnected"
    /\ DEBUG \in BOOLEAN
    /\ \E st \in InterfaceStates : ifExists = st.exists /\ ifAddrs = st.addrs
    /\ envChanges = 0
    /\ credFile \in CredentialFiles
    /\ credentials = PyNone
    /\ localIP = PyNone
    /\ seenAddrs = <<>>
    /\ postCount = 0
    /\ postBody = ""
    /\ response = PyNone
    /\ stdout = (IF DEBUG
                 THEN Banner \o << <<"Debugging print statements enabled">>, <<>> >>
                 ELSE Banner)
    /\ exitVia = "running"
    /\ exitCode = -1
    /\ exception = ""
    /\ connected = "unknown"
    /\ transport = "none"
    /\ responseText = <<>>
    /\ calls = <<>>

Next ==
    \/ isConnected_interfaces
    \/ isConnected_ifaddresses
    \/ getCredentials_load
    \/ getCredentials_augment
    \/ forwardPort
    \/ main_classify
    \/ InterfaceChanges

Spec == Init /\ [][Next]_vars

\* the runs in which the interface table does not change
NextStable ==
    \/ isConnected_interfaces
    \/ isConnected_ifaddresses
    \/ getCredentials_load
    \/ getCredentials_augment
    \/ forwardPort
    \/ main_classify

SpecStable == Init /\ [][NextStable]_vars

-----------------------------------------------------------------------------
(* Properties *)

Called(name) == \E i \in DOMAIN calls : calls[i] = name

Printed(text) == \E i \in DOMAIN stdout : stdout[i] = text

\* the value json.loads gives for the credentials file
FileValue == json_loads(credFile.text)

\* the forwarded-port line or one of the closing messages is on stdout
SuccessOutput ==
    \E i \in DOMAIN stdout :
        /\ stdout[i] # <<>>
        /\ stdout[i][1] \in
              { "Forwarded port: ",
                "Make sure to allow this port in your firewall and configure your applications to use it.",
                "Have a nice day :)" }

StageOrder == <<"interfaces", "ifaddresses", "open", "getIPAddress", "urlopen", "classify">>

IsPrefix(a, b) == Len(a) <= Len(b) /\ \A i \in DOMAIN a : a[i] = b[i]

\* the code of the first check of the run that failed, in the order
\* 1, 2, 3, 5, 4, 6, 7, 8, 9; 0 when none of these checks failed
FirstFailedCheck ==
    IF connected = "false" THEN 1
    ELSE IF Called("open") /\ ~credFile.readable THEN 2
    ELSE IF Called("open") /\ ~FileValue.ok THEN 3
    ELSE IF Called("getIPAddress") /\ Len(seenAddrs) > 1 THEN 5
    ELSE IF /\ Called("getIPAddress") /\ seenAddrs # <<>>
            /\ FileValue.val.t = "dict"
            /\ DictKeys(FileValue.val.items) \cap RequiredKeys = {} THEN 4
    ELSE IF transport \notin {"none", "ok"} THEN 6
    ELSE IF /\ transport = "ok" /\ exception # "UnicodeDecodeError"
            /\ ~json_loads(unquote(responseText)).ok THEN 7
    ELSE IF /\ Called("classify") /\ response.t = "dict"
            /\ ~DictHas(response.items, "port") THEN
            (IF DictHas(response.items, "error") THEN 8 ELSE 9)
    ELSE 0

\* C1: every run that does not end in success ends through handleError with
\* an exit code in 1..9; no failure leaves the process by another channel.
C1_EveryFailureThroughHandleError ==
    (pc = "exited" /\ exitVia # "return")
        => (exitVia = "handleError" /\ exitCode \in 1..9)

\* C2: when one of the checks 1, 2, 3, 5, 4, 6, 7, 8, 9 fails, the run ends
\* through handleError with the code of the first check that failed.
C2_ExitCodeOfFirstFailedCheck ==
    (pc = "exited" /\ FirstFailedCheck # 0)
        => (exitVia = "handleError" /\ exitCode = FirstFailedCheck)

\* C3: after any transport-level failure of the API call the run ends through
\* handleError with exit code 6 and never parses or classifies a response.
C3_TransportFailureExits6 ==
    (pc = "exited" /\ transport \notin {"none", "ok"})
        => /\ exitVia = "handleError"
           /\ exitCode = 6
           /\ ~Called("classify")
           /\ response = PyNone

\* C4: on a parsed response object exactly one of three branches is taken,
\* decided by its keys: port -> success showing the port value (also when
\* error is present); error without port -> exit 8 with the error value;
\* neither -> exit 9 with a message that lists every key/value pair.
C4_ClassificationIsThreeWay ==
    (Called("classify") /\ response.t = "dict") =>
        LET items == response.items
            hasPort == DictHas(items, "port")
            hasError == DictHas(items, "error")
        IN /\ pc = "exited"
           /\ hasPort =>
                 /\ exitVia = "return" /\ exitCode = 0
                 /\ Printed(<<"Forwarded port: ", PyStr(DictGet(items, "port"))>>)
           /\ (hasError /\ ~hasPort) =>
                 /\ exitVia = "handleError" /\ exitCode = 8
                 /\ Printed(<<"API returned an error: ", PyStr(DictGet(items, "error"))>>)
                 /\ ~SuccessOutput
           /\ (~hasError /\ ~hasPort) =>
                 /\ exitVia = "handleError" /\ exitCode = 9
                 /\ ~SuccessOutput
                 /\ \E i \in DOMAIN stdout :
                       /\ stdout[i] # <<>>
                       /\ stdout[i][1] = "API returned unknown key/value pair(s):\n\n"
                       /\ \A j \in DOMAIN items :
                             (items[j].k \o ": " \o PyStr(items[j].v)) \in Range(stdout[i])

\* a response with both keys was classified as success
C4_Witness ==
    /\ Called("classify")
    /\ response.t = "dict"
    /\ DictHas(response.items, "port")
    /\ DictHas(response.items, "error")
    /\ response.items[1].k = "error"
    /\ exitVia = "return"

\* C5: success (the forwarded-port line, the closing messages, exit status 0)
\* only if isConnected returned true, the file was read and parsed, exactly
\* one address was found, the POST completed and its response parsed as JSON
\* with key port; a run that calls handleError prints none of these lines.
C5_SuccessOnlyAfterEveryStage ==
    /\ (exitVia = "return" \/ (pc = "exited" /\ exitCode = 0) \/ SuccessOutput) =>
          /\ exitVia = "return"
          /\ exitCode = 0
          /\ connected = "true"
          /\ credFile.readable
          /\ FileValue.ok
          /\ Len(seenAddrs) = 1
          /\ postCount = 1
          /\ transport = "ok"
          /\ json_loads(unquote(responseText)).ok
          /\ response.t = "dict"
          /\ DictHas(response.items, "port")
    /\ exitVia = "handleError" => ~SuccessOutput

\* a run ended in success after the interface table changed
C5_Witness ==
    /\ exitVia = "return"
    /\ SuccessOutput
    /\ envChanges > 0
    /\ responseText = Escaped(responseText)

\* C6: with exactly one IPv4 record getIPAddress returns that record's
\* address; with N > 1 records the run ends with exit code 5, the message
\* holds all N records, and no address is returned or stored.
C6_GetIPAddress ==
    Called("getIPAddress") =>
        /\ Len(seenAddrs) = 1 =>
              /\ localIP = DictGet(seenAddrs[1].items, "addr")
              /\ ~(exitVia = "handleError" /\ exitCode = 5)
        /\ Len(seenAddrs) > 1 =>
              /\ pc = "exited"
              /\ exitVia = "handleError"
              /\ exitCode = 5
              /\ localIP = PyNone
              /\ credentials = FileValue.val
              /\ ~Called("urlopen")
              /\ \E i \in DOMAIN stdout :
                    \A j \in DOMAIN seenAddrs : PyStr(seenAddrs[j]) \in Range(stdout[i])

\* getIPAddress found more than one record and ended the run
C6_Witness ==
    /\ Called("getIPAddress")
    /\ Len(seenAddrs) > 1
    /\ exitCode = 5
    /\ seenAddrs[1] # AddressRecord(1)

\* C7: for a file with user, pass and client_id and an interface with one
\* address, the credentials are the file's mapping with local_ip set to the
\* resolved address and nothing else changed, from the return of
\* getCredentials on; the POST body is the form encoding of that mapping.
C7_OnlyLocalIPIsAdded ==
    ( /\ Called("getIPAddress")
      /\ Len(seenAddrs) = 1
      /\ FileValue.ok
      /\ FileValue.val.t = "dict"
      /\ RequiredKeys \subseteq DictKeys(FileValue.val.items) ) =>
        LET f == FileValue.val.items
            c == credentials.items
            ip == DictGet(seenAddrs[1].items, "addr")
        IN /\ credentials.t = "dict"
           /\ DictKeys(c) = DictKeys(f) \cup {"local_ip"}
           /\ Len(c) = Cardinality(DictKeys(c))
           /\ DictGet(c, "local_ip") = ip
           /\ \A key \in DictKeys(f) \ {"local_ip"} : DictGet(c, key) = DictGet(f, key)
           /\ \A i \in DOMAIN f : c[i].k = f[i].k
           /\ Called("urlopen") =>
                 /\ postBody = urlencode(c)
                 /\ ( /\ credFile.text = CredentialObject(<<"user", "pass", "client_id">>)
                      /\ ip = PyStrV("10.0.0.1") ) =>
                        postBody = "user=u+1&pass=p%26w&client_id=c1&local_ip=10.0.0.1"

\* the file held a local_ip of its own and the POST was issued
C7_Witness ==
    /\ Called("urlopen")
    /\ Len(seenAddrs) = 1
    /\ FileValue.ok
    /\ FileValue.val.t = "dict"
    /\ RequiredKeys \subseteq DictKeys(FileValue.val.items)
    /\ DictHas(FileValue.val.items, "local_ip")
    /\ postBody = "local_ip=10.0.0.2&user=u+1&pass=p%26w&client_id=c1"

\* C8: with one IPv4 address, getCredentials fails with exit code 4 exactly
\* when the object has none of user, pass, client_id, and for every object
\* with at least one of them it returns the mapping to its caller.
C8_AtLeastOneKeySuffices ==
    ( /\ Called("getIPAddress")
      /\ Len(seenAddrs) = 1
      /\ FileValue.ok
      /\ FileValue.val.t = "dict" ) =>
        LET none == DictKeys(FileValue.val.items) \cap RequiredKeys = {}
        IN /\ (exitVia = "handleError" /\ exitCode = 4) <=> none
           /\ ~none => (pc = "forwardPort" \/ Called("urlopen"))

\* C9: at most one POST is issued, only after isConnected returned true, the
\* file was parsed, getIPAddress returned and the key check passed; every
\* stage runs at most once and in order, and a transport failure or a
\* malformed response ends the run with the POST as its last stage.
C9_AtMostOnePost ==
    /\ postCount <= 1
    /\ postCount = Cardinality({i \in DOMAIN calls : calls[i] = "urlopen"})
    /\ IsPrefix(calls, StageOrder)
    /\ postCount = 1 =>
          /\ connected = "true"
          /\ credFile.readable
          /\ FileValue.ok
          /\ Len(seenAddrs) = 1
          /\ localIP = DictGet(seenAddrs[1].items, "addr")
          /\ credentials.t = "dict"
          /\ DictKeys(credentials.items) \cap RequiredKeys # {}
    /\ (transport \notin {"none", "ok"} \/ (exitVia = "handleError" /\ exitCode = 7)) =>
          /\ pc = "exited"
          /\ calls[Len(calls)] = "urlopen"

\* the POST failed in transport and the run ended after that one request
C9_Witness ==
    /\ postCount = 1
    /\ transport = "URLError(timeout)"
    /\ pc = "exited"
    /\ exitCode = 6

\* C10: getIPAddress is only run after isConnected returned true and never
\* finds the interface without an IPv4 address family.
C10_ZeroAddressesUnreachable ==
    Called("getIPAddress") =>
        (connected = "true" /\ exception # "KeyError(AF_INET)")

====
